---- MODULE Spec2Model ----
(***************************************************************************)
(* NgxAgoraService (projects/ngx-agora/src/lib/ngx-agora.service.ts): a    *)
(* thin injectable wrapper around the AgoraRTC library object.  The        *)
(* service owns three fields (client, audioDevices, videoDevices); the     *)
(* provider (AgoraRTC) is the environment: it answers the compatibility    *)
(* check, delivers (or never delivers) the getDevices callback, and        *)
(* creates clients and streams.                                            *)
(***************************************************************************)
EXTENDS Integers, Sequences, FiniteSets, TLC

(* ------------------------------ bounds --------------------------------- *)

\* Longest device list the provider hands to the getDevices callback.
MaxDevices == 3

\* Most client objects the provider creates in one run.
MaxClients == 2

\* Most deliveries of the getDevices callback where the provider is allowed to
\* invoke it again.
MaxDeliveries == 2

(* --------------------------- JavaScript values ------------------------- *)

\* A field that was never assigned (undefined) is distinct from an empty
\* array: isSet tells them apart.
Unset == [isSet |-> FALSE, list |-> <<>>]

Assigned(l) == [isSet |-> TRUE, list |-> l]

\* An optional string property of an object: <<>> is undefined (the property
\* was never assigned), <<v>> is the string v.
Undefined == <<>>

Str(v) == <<v>>

\* The property is truthy: it is defined and is not the empty string.
Truthy(o) == o # Undefined /\ o[1] # ""

\* o || dflt
JsOr(o, dflt) == IF Truthy(o) THEN o ELSE dflt

(* ------------------------------ inputs --------------------------------- *)

\* MediaDeviceInfo records the provider may enumerate.
Devices ==
  { [deviceId |-> "a",       kind |-> "audioinput",  label |-> "Mic A"],
    [deviceId |-> "c",       kind |-> "audioinput",  label |-> "Mic C"],
    [deviceId |-> "default", kind |-> "audioinput",  label |-> "Default"],
    [deviceId |-> "b",       kind |-> "videoinput",  label |-> "Cam B"],
    [deviceId |-> "d",       kind |-> "videoinput",  label |-> "Cam D"],
    [deviceId |-> "default", kind |-> "videoinput",  label |-> "Default"],
    [deviceId |-> "a",       kind |-> "audiooutput", label |-> "Speaker A"] }

DeviceLists == UNION { [1..n -> Devices] : n \in 0..MaxDevices }

\* What a caller may put in microphoneId and cameraId: nothing, the empty
\* string, or an identifier of its own.
OptionalIds == { Undefined, Str(""), Str("x") }

\* The capture flags of a StreamSpec: a camera-and-microphone stream, and a
\* screen-sharing stream without either (video and screen are not to be set
\* together).
Captures == { [audio |-> TRUE,  video |-> TRUE,  screen |-> FALSE],
              [audio |-> FALSE, video |-> FALSE, screen |-> TRUE] }

\* StreamSpec objects a caller may pass to createStream.
StreamSpecs ==
  { [audio |-> flags.audio, video |-> flags.video, screen |-> flags.screen,
     microphoneId |-> m, cameraId |-> c] :
      flags \in Captures, m \in OptionalIds, c \in OptionalIds }

\* ClientConfig objects a caller may pass to createClient.
ClientConfigs == { [mode |-> "rtc", codec |-> "h264"],
                   [mode |-> "live", codec |-> "vp8"] }

\* The injected AgoraConfig.
AppID == "app-id"

(* ------------------------------- state --------------------------------- *)

VARIABLES
  svc,              \* "new" | "constructed" | "threw": the constructor's outcome
  compat,           \* "unknown" | "ok" | "unsupported": the check made at construction
  loggerErrors,     \* calls of AgoraRTC.Logger.error made by the service
  getDevicesCalls,  \* calls of AgoraRTC.getDevices made by the service
  enum,             \* "none" | "pending" | "delivered" | "failed": the enumeration
  cacheWrites,      \* assignments made to the pair audioDevices/videoDevices
  audioDevices,     \* this.audioDevices
  videoDevices,     \* this.videoDevices
  client,           \* this.client: 0 is undefined, n > 0 the n-th provider client
  clientsCreated,   \* client objects the provider has created
  lastOp            \* the most recent step of the service (a public call or the
                    \* getDevices callback), its inputs and what the provider saw

vars == <<svc, compat, loggerErrors, getDevicesCalls, enum, cacheWrites,
          audioDevices, videoDevices, client, clientsCreated, lastOp>>

NoOp == [op |-> "none"]

Init ==
  /\ svc = "new"
  /\ compat = "unknown"
  /\ loggerErrors = 0
  /\ getDevicesCalls = 0
  /\ enum = "none"
  /\ cacheWrites = 0
  /\ audioDevices = Unset
  /\ videoDevices = Unset
  /\ client = 0
  /\ clientsCreated = 0
  /\ lastOp = NoOp

(* --------------------- the service's methods (pure part) ---------------- *)

\* checkSystemRequirements(): returns the provider's answer.
checkSystemRequirementsOp(providerAnswer) == providerAnswer

\* Variant: the unsupported branch also starts the enumeration.
constructorOp_AlwaysCollects(supported) ==
  IF ~supported
    THEN [threw |-> FALSE, loggerErrors |-> 1, collect |-> TRUE]
    ELSE [threw |-> FALSE, loggerErrors |-> 0, collect |-> TRUE]

\* Variant: the unsupported branch raises instead of logging.
constructorOp_Throws(supported) ==
  IF ~supported
    THEN [threw |-> TRUE, loggerErrors |-> 0, collect |-> FALSE]
    ELSE [threw |-> FALSE, loggerErrors |-> 0, collect |-> TRUE]

\* The constructor body, given the result of this.checkSystemRequirements():
\* what it logs, whether it calls collectDevices(), whether it raises.
constructorOp(supported) ==
  IF ~supported
    THEN [threw |-> FALSE, loggerErrors |-> 1, collect |-> FALSE]
    ELSE [threw |-> FALSE, loggerErrors |-> 0, collect |-> TRUE]

\* Variant: the filter forgets the "default" alias.
IsInput_KeepsDefault(device, kind) == device.kind = kind

\* The predicate of both filters of the getDevices callback.
IsInput(device, kind) == device.kind = kind /\ device.deviceId # "default"

\* Variant: the kept devices are collected with unshift, newest first.
RECURSIVE filterDevices_Reversed(_, _)
filterDevices_Reversed(list, kind) ==
  IF list = <<>>
    THEN <<>>
    ELSE filterDevices_Reversed(Tail(list), kind)
           \o (IF IsInput(Head(list), kind) THEN <<Head(list)>> ELSE <<>>)

\* Array.prototype.filter with IsInput(_, kind): one pass, in order.
RECURSIVE filterDevices(_, _)
filterDevices(list, kind) ==
  IF list = <<>>
    THEN <<>>
    ELSE (IF IsInput(Head(list), kind) THEN <<Head(list)>> ELSE <<>>)
           \o filterDevices(Tail(list), kind)

\* Variant: the callback forgets the assignment of this.videoDevices.
collectDevicesCallback_AudioOnly(list) ==
  [audioDevices |-> Assigned(filterDevices(list, "audioinput")),
   videoDevices |-> Unset]

\* Variant: the callback assigns this.videoDevices only when a video input was
\* found.
collectDevicesCallback_VideoIfAny(list) ==
  [audioDevices |-> Assigned(filterDevices(list, "audioinput")),
   videoDevices |-> IF filterDevices(list, "videoinput") = <<>>
                      THEN Unset
                      ELSE Assigned(filterDevices(list, "videoinput"))]

\* The callback collectDevices() passes to getDevices: both assignments.
collectDevicesCallback(list) ==
  [audioDevices |-> Assigned(filterDevices(list, "audioinput")),
   videoDevices |-> Assigned(filterDevices(list, "videoinput"))]

\* Variant: the callback appends to an existing cache (push) instead of
\* assigning it.
assignCache_Appends(current, value) ==
  IF current.isSet /\ value.isSet THEN Assigned(current.list \o value.list) ELSE value

\* "this.audioDevices = audioDevices" (and the same for video): the field
\* takes the new value, whatever it held.
assignCache(current, value) == value

\* this.xDevices && this.xDevices.length
HasDevices(cache) == cache.isSet /\ Len(cache.list) # 0

\* Variant: the defaults are written without testing the caller's fields.
createStreamOp_AlwaysDefaults(spec, audio, video) ==
  LET s1 == IF HasDevices(audio)
              THEN [spec EXCEPT !.microphoneId = Str(audio.list[1].deviceId)]
              ELSE spec
      s2 == IF HasDevices(video)
              THEN [s1 EXCEPT !.cameraId = Str(video.list[1].deviceId)]
              ELSE s1
  IN  [threw |-> FALSE, spec |-> s2, audioDevices |-> audio, videoDevices |-> video,
       getDevices |-> 0]

\* Variant: the default microphone is the last cached device, not the first.
createStreamOp_LastMic(spec, audio, video) ==
  LET s1 == IF ~Truthy(spec.microphoneId) /\ HasDevices(audio)
              THEN [spec EXCEPT !.microphoneId =
                      Str(audio.list[Len(audio.list)].deviceId)]
              ELSE spec
      s2 == IF ~Truthy(s1.cameraId) /\ HasDevices(video)
              THEN [s1 EXCEPT !.cameraId =
                      JsOr(s1.cameraId, Str(video.list[1].deviceId))]
              ELSE s1
  IN  [threw |-> FALSE, spec |-> s2, audioDevices |-> audio, videoDevices |-> video,
       getDevices |-> 0]

\* Variant: the second "if" is an "else if": no camera default once the
\* microphone default was applied.
createStreamOp_ElseIf(spec, audio, video) ==
  LET micApplies == ~Truthy(spec.microphoneId) /\ HasDevices(audio)
      s1 == IF micApplies
              THEN [spec EXCEPT !.microphoneId = Str(audio.list[1].deviceId)]
              ELSE spec
      s2 == IF ~micApplies /\ ~Truthy(s1.cameraId) /\ HasDevices(video)
              THEN [s1 EXCEPT !.cameraId =
                      JsOr(s1.cameraId, Str(video.list[1].deviceId))]
              ELSE s1
  IN  [threw |-> FALSE, spec |-> s2, audioDevices |-> audio, videoDevices |-> video,
       getDevices |-> 0]

\* Variant: the ".length" tests are missing, so element 0 of an empty array
\* (undefined) is dereferenced: a TypeError before the provider is reached.
createStreamOp_NoLengthCheck(spec, audio, video) ==
  IF \/ ~Truthy(spec.microphoneId) /\ audio.isSet /\ Len(audio.list) = 0
     \/ ~Truthy(spec.cameraId) /\ video.isSet /\ Len(video.list) = 0
    THEN [threw |-> TRUE, spec |-> spec, audioDevices |-> audio,
          videoDevices |-> video, getDevices |-> 0]
    ELSE LET s1 == IF ~Truthy(spec.microphoneId) /\ audio.isSet
                     THEN [spec EXCEPT !.microphoneId = Str(audio.list[1].deviceId)]
                     ELSE spec
             s2 == IF ~Truthy(s1.cameraId) /\ video.isSet
                     THEN [s1 EXCEPT !.cameraId =
                             JsOr(s1.cameraId, Str(video.list[1].deviceId))]
                     ELSE s1
         IN  [threw |-> FALSE, spec |-> s2, audioDevices |-> audio,
              videoDevices |-> video, getDevices |-> 0]

\* Variant: the "this.xDevices &&" tests are missing, so ".length" of an
\* undefined field is read: a TypeError before the provider is reached.
createStreamOp_NoUnsetCheck(spec, audio, video) ==
  IF \/ ~Truthy(spec.microphoneId) /\ ~audio.isSet
     \/ ~Truthy(spec.cameraId) /\ ~video.isSet
    THEN [threw |-> TRUE, spec |-> spec, audioDevices |-> audio,
          videoDevices |-> video, getDevices |-> 0]
    ELSE LET s1 == IF ~Truthy(spec.microphoneId) /\ Len(audio.list) # 0
                     THEN [spec EXCEPT !.microphoneId = Str(audio.list[1].deviceId)]
                     ELSE spec
             s2 == IF ~Truthy(s1.cameraId) /\ Len(video.list) # 0
                     THEN [s1 EXCEPT !.cameraId =
                             JsOr(s1.cameraId, Str(video.list[1].deviceId))]
                     ELSE s1
         IN  [threw |-> FALSE, spec |-> s2, audioDevices |-> audio,
              videoDevices |-> video, getDevices |-> 0]

\* Variant: the default microphone is taken with shift(), which removes it
\* from the cache.
createStreamOp_Shift(spec, audio, video) ==
  LET micApplies == ~Truthy(spec.microphoneId) /\ HasDevices(audio)
      s1 == IF micApplies
              THEN [spec EXCEPT !.microphoneId = Str(audio.list[1].deviceId)]
              ELSE spec
      s2 == IF ~Truthy(s1.cameraId) /\ HasDevices(video)
              THEN [s1 EXCEPT !.cameraId =
                      JsOr(s1.cameraId, Str(video.list[1].deviceId))]
              ELSE s1
  IN  [threw |-> FALSE, spec |-> s2,
       audioDevices |-> IF micApplies THEN Assigned(Tail(audio.list)) ELSE audio,
       videoDevices |-> video, getDevices |-> 0]

\* Variant: the camera assignment is outside its "if" with the operands of
\* "||" swapped: defaultCamera || spec.cameraId.
createStreamOp_CameraOrSwapped(spec, audio, video) ==
  LET s1 == IF ~Truthy(spec.microphoneId) /\ HasDevices(audio)
              THEN [spec EXCEPT !.microphoneId = Str(audio.list[1].deviceId)]
              ELSE spec
      s2 == IF HasDevices(video)
              THEN [s1 EXCEPT !.cameraId =
                      JsOr(Str(video.list[1].deviceId), s1.cameraId)]
              ELSE s1
  IN  [threw |-> FALSE, spec |-> s2, audioDevices |-> audio, videoDevices |-> video,
       getDevices |-> 0]

\* Variant: the provider is handed a new object built from the identifiers
\* alone, with both capture flags switched on.
createStreamOp_RebuildsSpec(spec, audio, video) ==
  LET s1 == IF ~Truthy(spec.microphoneId) /\ HasDevices(audio)
              THEN [spec EXCEPT !.microphoneId = Str(audio.list[1].deviceId)]
              ELSE spec
      s2 == IF ~Truthy(s1.cameraId) /\ HasDevices(video)
              THEN [s1 EXCEPT !.cameraId =
                      JsOr(s1.cameraId, Str(video.list[1].deviceId))]
              ELSE s1
  IN  [threw |-> FALSE,
       spec |-> [audio |-> TRUE, video |-> TRUE, screen |-> FALSE,
                 microphoneId |-> s2.microphoneId, cameraId |-> s2.cameraId],
       audioDevices |-> audio, videoDevices |-> video, getDevices |-> 0]

\* Variant: with no cached device the fields fall back to the "default" alias.
createStreamOp_FallbackAlias(spec, audio, video) ==
  LET s1 == IF ~Truthy(spec.microphoneId)
              THEN [spec EXCEPT !.microphoneId =
                      IF HasDevices(audio) THEN Str(audio.list[1].deviceId)
                                           ELSE Str("default")]
              ELSE spec
      s2 == IF ~Truthy(s1.cameraId)
              THEN [s1 EXCEPT !.cameraId =
                      IF HasDevices(video) THEN Str(video.list[1].deviceId)
                                           ELSE Str("default")]
              ELSE s1
  IN  [threw |-> FALSE, spec |-> s2, audioDevices |-> audio, videoDevices |-> video,
       getDevices |-> 0]

\* Variant: the fields are tested with "=== undefined", so an empty string
\* counts as supplied.
createStreamOp_StrictUndefined(spec, audio, video) ==
  LET s1 == IF spec.microphoneId = Undefined /\ HasDevices(audio)
              THEN [spec EXCEPT !.microphoneId = Str(audio.list[1].deviceId)]
              ELSE spec
      s2 == IF s1.cameraId = Undefined /\ HasDevices(video)
              THEN [s1 EXCEPT !.cameraId = Str(video.list[1].deviceId)]
              ELSE s1
  IN  [threw |-> FALSE, spec |-> s2, audioDevices |-> audio, videoDevices |-> video,
       getDevices |-> 0]

\* Variant: a default is applied only for a device the stream captures: the
\* microphone when audio is set, the camera when video is set and screen is not.
createStreamOp_FlagGated(spec, audio, video) ==
  LET s1 == IF spec.audio /\ ~Truthy(spec.microphoneId) /\ HasDevices(audio)
              THEN [spec EXCEPT !.microphoneId = Str(audio.list[1].deviceId)]
              ELSE spec
      s2 == IF s1.video /\ ~s1.screen /\ ~Truthy(s1.cameraId) /\ HasDevices(video)
              THEN [s1 EXCEPT !.cameraId =
                      JsOr(s1.cameraId, Str(video.list[1].deviceId))]
              ELSE s1
  IN  [threw |-> FALSE, spec |-> s2, audioDevices |-> audio, videoDevices |-> video,
       getDevices |-> 0]

\* createStream(spec) up to the provider call: the (mutated) spec object it
\* hands to AgoraRTC.createStream, the caches afterwards, the calls of
\* AgoraRTC.getDevices it makes (none), and whether the wrapper itself raised
\* before reaching the provider.
createStreamOp(spec, audio, video) ==
  LET s1 == IF ~Truthy(spec.microphoneId) /\ HasDevices(audio)
              THEN [spec EXCEPT !.microphoneId = Str(audio.list[1].deviceId)]
              ELSE spec
      s2 == IF ~Truthy(s1.cameraId) /\ HasDevices(video)
              THEN [s1 EXCEPT !.cameraId =
                      JsOr(s1.cameraId, Str(video.list[1].deviceId))]
              ELSE s1
  IN  [threw |-> FALSE, spec |-> s2, audioDevices |-> audio, videoDevices |-> video,
       getDevices |-> 0]

\* Variant: the defaults are written into a copy of the argument ({...spec}),
\* which is what the provider receives; the caller's object is left alone.
specAfterCall_Copy(specIn, forwarded) == specIn

\* "spec.microphoneId = ..." and "spec.cameraId = ..." assign properties of the
\* parameter, which is the caller's object, and that object is the argument of
\* AgoraRTC.createStream: after the call the caller's object holds what the
\* provider was handed.
specAfterCall(specIn, forwarded) == forwarded

\* Variant: the provider call is wrapped in try/catch and a failure becomes an
\* undefined result.
createStreamReturn_Swallows(outcome) ==
  IF outcome = "error" THEN "undefined" ELSE outcome

\* "return this.AgoraRTC.createStream(spec)": what the caller of createStream
\* observes, given what the provider's createStream did (returned a stream, or
\* raised its error).
createStreamReturn(outcome) == outcome

\* The calls and the assignment createClient(config) makes, in program order.
CallCreateClient == [on |-> "AgoraRTC", call |-> "createClient"]

AssignClient == [on |-> "this", call |-> "client ="]

CallInit == [on |-> "client", call |-> "init"]

\* Variant: the config handed to the provider is rebuilt with a fixed mode.
createClientOp_OverridesMode(config, outcome, created, current) ==
  IF outcome = "createThrows"
    THEN [client |-> current, providerConfig |-> [config EXCEPT !.mode = "rtc"],
          initCalls |-> <<>>, caller |-> "error", returned |-> <<>>,
          steps |-> <<CallCreateClient>>]
    ELSE [client |-> created, providerConfig |-> [config EXCEPT !.mode = "rtc"],
          initCalls |-> << <<created, <<AppID>> >> >>,
          caller |-> IF outcome = "initThrows" THEN "error" ELSE "undefined",
          returned |-> <<>>,
          steps |-> <<CallCreateClient, AssignClient, CallInit>>]

\* Variant: "this.client = this.client || ...": a handle already stored is kept.
createClientOp_KeepsFirst(config, outcome, created, current) ==
  IF outcome = "createThrows"
    THEN [client |-> current, providerConfig |-> config, initCalls |-> <<>>,
          caller |-> "error", returned |-> <<>>, steps |-> <<CallCreateClient>>]
    ELSE [client |-> IF current # 0 THEN current ELSE created,
          providerConfig |-> config,
          initCalls |-> << <<IF current # 0 THEN current ELSE created, <<AppID>> >> >>,
          caller |-> IF outcome = "initThrows" THEN "error" ELSE "undefined",
          returned |-> <<>>,
          steps |-> <<CallCreateClient, AssignClient, CallInit>>]

\* Variant: init is called on this.client before the new object is stored.
createClientOp_InitBeforeAssign(config, outcome, created, current) ==
  IF outcome = "createThrows"
    THEN [client |-> current, providerConfig |-> config, initCalls |-> <<>>,
          caller |-> "error", returned |-> <<>>, steps |-> <<CallCreateClient>>]
    ELSE [client |-> created, providerConfig |-> config,
          initCalls |-> << <<current, <<AppID>> >> >>,
          caller |-> IF outcome = "initThrows" THEN "error" ELSE "undefined",
          returned |-> <<>>,
          steps |-> <<CallCreateClient, CallInit, AssignClient>>]

\* Variant: the new object is kept in a local and stored in this.client only
\* after init returned.
createClientOp_AssignAfterInit(config, outcome, created, current) ==
  IF outcome = "createThrows"
    THEN [client |-> current, providerConfig |-> config, initCalls |-> <<>>,
          caller |-> "error", returned |-> <<>>, steps |-> <<CallCreateClient>>]
    ELSE [client |-> IF outcome = "initThrows" THEN current ELSE created,
          providerConfig |-> config,
          initCalls |-> << <<created, <<AppID>> >> >>,
          caller |-> IF outcome = "initThrows" THEN "error" ELSE "undefined",
          returned |-> <<>>,
          steps |-> IF outcome = "initThrows"
                      THEN <<CallCreateClient, CallInit>>
                      ELSE <<CallCreateClient, CallInit, AssignClient>>]

\* Variant: the body is wrapped in try/catch; the handler clears this.client
\* and the caller sees a normal return.
createClientOp_CatchesErrors(config, outcome, created, current) ==
  IF outcome = "createThrows"
    THEN [client |-> 0, providerConfig |-> config, initCalls |-> <<>>,
          caller |-> "undefined", returned |-> <<>>,
          steps |-> <<CallCreateClient, AssignClient>>]
    ELSE [client |-> IF outcome = "initThrows" THEN 0 ELSE created,
          providerConfig |-> config,
          initCalls |-> << <<created, <<AppID>> >> >>,
          caller |-> "undefined",
          returned |-> <<>>,
          steps |-> IF outcome = "initThrows"
                      THEN <<CallCreateClient, AssignClient, CallInit, AssignClient>>
                      ELSE <<CallCreateClient, AssignClient, CallInit>>]

\* createClient(config): the provider's createClient may raise ("createThrows"),
\* or return the object `created`, whose init may raise ("initThrows"), fail
\* later ("initFails", reported to init's failure callback) or succeed ("ok").
\* initCalls lists each init call as <<object, arguments>>; returned is what a
\* normal return hands to the caller: <<>> is undefined (the method is void).
createClientOp(config, outcome, created, current) ==
  IF outcome = "createThrows"
    THEN [client |-> current, providerConfig |-> config, initCalls |-> <<>>,
          caller |-> "error", returned |-> <<>>, steps |-> <<CallCreateClient>>]
    ELSE [client |-> created, providerConfig |-> config,
          initCalls |-> << <<created, <<AppID>> >> >>,
          caller |-> IF outcome = "initThrows" THEN "error" ELSE "undefined",
          returned |-> <<>>,
          steps |-> <<CallCreateClient, AssignClient, CallInit>>]

\* init(appId, onSuccess?, onFailure?): the failure callback is the third
\* argument; the provider reports a failed initialisation to it, if present.
HasOnFailure(initCall) == Len(initCall[2]) >= 3

(* ------------------------------ actions -------------------------------- *)

\* new NgxAgoraService(config): the provider answers the compatibility check.
Constructor ==
  /\ svc = "new"
  /\ \E answer \in BOOLEAN :
       LET r == constructorOp(checkSystemRequirementsOp(answer)) IN
       /\ svc' = IF r.threw THEN "threw" ELSE "constructed"
       /\ compat' = IF answer THEN "ok" ELSE "unsupported"
       /\ loggerErrors' = loggerErrors + r.loggerErrors
       /\ getDevicesCalls' = getDevicesCalls + (IF r.collect THEN 1 ELSE 0)
       /\ enum' = IF r.collect THEN "pending" ELSE enum
  /\ UNCHANGED <<cacheWrites, audioDevices, videoDevices, client, clientsCreated,
                 lastOp>>

\* The provider invokes the getDevices callback with the enumerated devices
\* (once per getDevices call, as the provider's interface promises).
getDevicesCallback ==
  /\ enum = "pending"
  /\ \E list \in DeviceLists :
       LET r == collectDevicesCallback(list) IN
       /\ lastOp' = [op |-> "getDevicesCallback", devices |-> list, before |-> <<>>]
       /\ audioDevices' = assignCache(audioDevices, r.audioDevices)
       /\ videoDevices' = assignCache(videoDevices, r.videoDevices)
  /\ enum' = "delivered"
  /\ cacheWrites' = cacheWrites + 1
  /\ UNCHANGED <<svc, compat, loggerErrors, getDevicesCalls, client, clientsCreated>>

\* A provider that invokes the callback again, with the list it delivered
\* before (not part of Next: the provider's interface delivers once).
getDevicesCallbackAgain ==
  /\ enum = "delivered"
  /\ lastOp.op = "getDevicesCallback"
  /\ cacheWrites < MaxDeliveries
  /\ LET r == collectDevicesCallback(lastOp.devices) IN
       /\ lastOp' = [op |-> "getDevicesCallback", devices |-> lastOp.devices,
                     before |-> << [audioDevices |-> audioDevices,
                                    videoDevices |-> videoDevices] >>]
       /\ audioDevices' = assignCache(audioDevices, r.audioDevices)
       /\ videoDevices' = assignCache(videoDevices, r.videoDevices)
  /\ cacheWrites' = cacheWrites + 1
  /\ UNCHANGED <<svc, compat, loggerErrors, getDevicesCalls, enum, client,
                 clientsCreated>>

\* The enumeration fails: the provider will never invoke the callback.
getDevicesFails ==
  /\ enum = "pending"
  /\ enum' = "failed"
  /\ UNCHANGED <<svc, compat, loggerErrors, getDevicesCalls, cacheWrites,
                 audioDevices, videoDevices, client, clientsCreated, lastOp>>

\* A consumer calls checkSystemRequirements().
checkSystemRequirements ==
  /\ svc = "constructed"
  /\ \E answer \in BOOLEAN :
       lastOp' = [op |-> "checkSystemRequirements", provider |-> answer,
                  returned |-> checkSystemRequirementsOp(answer)]
  /\ UNCHANGED <<svc, compat, loggerErrors, getDevicesCalls, enum, cacheWrites,
                 audioDevices, videoDevices, client, clientsCreated>>

\* One createStream(spec) call; the provider's createStream returns a stream or
\* raises (outcome).  spec is what the provider receives, callerSpec what the
\* caller's object holds afterwards.  prev is <<>>, or <<p>> when the caller
\* passes again the object of its previous call p.
StreamCall(spec, outcome, prev) ==
  LET r == createStreamOp(spec, audioDevices, videoDevices) IN
  /\ lastOp' = [op |-> "createStream", specIn |-> spec, threw |-> r.threw,
                spec |-> r.spec, callerSpec |-> specAfterCall(spec, r.spec),
                providerCalls |-> IF r.threw THEN 0 ELSE 1,
                audioSeen |-> audioDevices, videoSeen |-> videoDevices,
                enumSeen |-> enum, clientSeen |-> client,
                provider |-> IF r.threw THEN "notCalled" ELSE outcome,
                caller |-> IF r.threw THEN "TypeError"
                                      ELSE createStreamReturn(outcome),
                prev |-> prev]
  /\ audioDevices' = r.audioDevices
  /\ videoDevices' = r.videoDevices
  /\ cacheWrites' = cacheWrites +
       (IF r.audioDevices # audioDevices \/ r.videoDevices # videoDevices
          THEN 1 ELSE 0)
  /\ getDevicesCalls' = getDevicesCalls + r.getDevices

\* A consumer calls createStream(spec) with a new specification object; the
\* provider's createStream returns a stream or raises.
createStream ==
  /\ svc = "constructed"
  /\ \E spec \in StreamSpecs, outcome \in {"stream", "error"} :
       StreamCall(spec, outcome, <<>>)
  /\ UNCHANGED <<svc, compat, loggerErrors, enum, client, clientsCreated>>

\* A consumer calls createStream again with the object it passed to the
\* previous call: the object holds whatever that call wrote into it.
createStreamAgain ==
  /\ svc = "constructed"
  /\ lastOp.op = "createStream"
  /\ lastOp.prev = <<>>
  /\ \E outcome \in {"stream", "error"} :
       StreamCall(lastOp.callerSpec, outcome,
                  << [specIn |-> lastOp.specIn, spec |-> lastOp.spec,
                      providerCalls |-> lastOp.providerCalls] >>)
  /\ UNCHANGED <<svc, compat, loggerErrors, enum, client, clientsCreated>>

\* A consumer calls createClient(config).
createClient ==
  /\ svc = "constructed"
  /\ clientsCreated < MaxClients
  /\ \E config \in ClientConfigs,
        outcome \in {"ok", "createThrows", "initThrows", "initFails"} :
       LET r == createClientOp(config, outcome, clientsCreated + 1, client) IN
       /\ client' = r.client
       /\ clientsCreated' = IF outcome = "createThrows" THEN clientsCreated
                                                         ELSE clientsCreated + 1
       /\ lastOp' = [op |-> "createClient", config |-> config,
                     providerConfig |-> r.providerConfig, providerCalls |-> 1,
                     initCalls |-> r.initCalls, caller |-> r.caller,
                     clientBefore |-> client,
                     outcome |-> outcome,
                     created |-> IF outcome = "createThrows" THEN 0
                                                             ELSE clientsCreated + 1,
                     returned |-> r.returned, steps |-> r.steps,
                     failureCallbacks |->
                       IF outcome = "initFails" /\ r.initCalls # <<>>
                            /\ HasOnFailure(r.initCalls[1])
                         THEN 1 ELSE 0]
  /\ UNCHANGED <<svc, compat, loggerErrors, getDevicesCalls, enum, cacheWrites,
                 audioDevices, videoDevices>>

Next ==
  \/ Constructor
  \/ getDevicesCallback
  \/ getDevicesFails
  \/ checkSystemRequirements
  \/ createStream
  \/ createStreamAgain
  \/ createClient

Spec == Init /\ [][Next]_vars

\* The service under a provider that may deliver the enumeration again.
NextRedelivery ==
  \/ Constructor
  \/ getDevicesCallback
  \/ getDevicesCallbackAgain

SpecRedelivery == Init /\ [][NextRedelivery]_vars

(* ------------------------------ properties ----------------------------- *)

IsCreateStream == lastOp.op = "createStream"

IsCreateClient == lastOp.op = "createClient"

IsCallback == lastOp.op = "getDevicesCallback"

\* Occurrences of d in a sequence.
Count(list, d) == Cardinality({ i \in 1..Len(list) : list[i] = d })

Elements(list) == { list[i] : i \in 1..Len(list) }

\* C1 (as stated): a microphoneId (resp. cameraId) the caller supplied,
\* whatever its value, reaches the provider unchanged.
C1_AnySuppliedIdKept ==
  IsCreateStream =>
    /\ lastOp.specIn.microphoneId # Undefined =>
         lastOp.spec.microphoneId = lastOp.specIn.microphoneId
    /\ lastOp.specIn.cameraId # Undefined =>
         lastOp.spec.cameraId = lastOp.specIn.cameraId

\* C1 (amended): a non-empty microphoneId (resp. cameraId) the caller
\* supplied reaches the provider unchanged, whatever the caches hold; the
\* empty string is treated as unset.
C1_NonEmptySuppliedIdKept ==
  IsCreateStream =>
    /\ lastOp.providerCalls = 1
    /\ Truthy(lastOp.specIn.microphoneId) =>
         lastOp.spec.microphoneId = lastOp.specIn.microphoneId
    /\ Truthy(lastOp.specIn.cameraId) =>
         lastOp.spec.cameraId = lastOp.specIn.cameraId

\* C1 witness: both identifiers supplied while both caches hold devices.
C1_Witness ==
  /\ IsCreateStream
  /\ lastOp.specIn.microphoneId = Str("x")
  /\ lastOp.specIn.cameraId = Str("x")
  /\ HasDevices(lastOp.audioSeen)
  /\ HasDevices(lastOp.videoSeen)
  /\ lastOp.spec = lastOp.specIn

\* C2: microphoneId unset and the audio cache set and non-empty: the provider
\* receives the deviceId of the first cached audio device.
C2_DefaultMicIsFirstCached ==
  ( /\ IsCreateStream
    /\ lastOp.specIn.microphoneId = Undefined
    /\ lastOp.audioSeen.isSet
    /\ Len(lastOp.audioSeen.list) > 0 )
  => /\ lastOp.providerCalls = 1
     /\ lastOp.spec.microphoneId = Str(Head(lastOp.audioSeen.list).deviceId)

\* C2 witness: two different audio devices cached, the first one chosen.
C2_Witness ==
  /\ IsCreateStream
  /\ lastOp.specIn.microphoneId = Undefined
  /\ Len(lastOp.audioSeen.list) >= 2
  /\ lastOp.audioSeen.list[1].deviceId = "a"
  /\ lastOp.audioSeen.list[2].deviceId = "c"
  /\ lastOp.spec.microphoneId = Str("a")

\* C3: cameraId unset and the video cache set and non-empty: the provider
\* receives the deviceId of the first cached video device, whether or not the
\* microphone default was applied in the same call.
C3_DefaultCameraIsFirstCached ==
  ( /\ IsCreateStream
    /\ lastOp.specIn.cameraId = Undefined
    /\ lastOp.videoSeen.isSet
    /\ Len(lastOp.videoSeen.list) > 0 )
  => /\ lastOp.providerCalls = 1
     /\ lastOp.spec.cameraId = Str(Head(lastOp.videoSeen.list).deviceId)

\* C3 witness: the microphone default and the camera default applied in one
\* call, the camera being the first of two cached video devices.
C3_Witness ==
  /\ IsCreateStream
  /\ lastOp.specIn.cameraId = Undefined
  /\ lastOp.specIn.microphoneId = Undefined
  /\ lastOp.spec.microphoneId = Str("a")
  /\ Len(lastOp.videoSeen.list) >= 2
  /\ lastOp.videoSeen.list[1].deviceId = "d"
  /\ lastOp.videoSeen.list[2].deviceId = "b"
  /\ lastOp.spec.cameraId = Str("d")

\* C4: a cache that is empty or unset leaves its field as the caller supplied
\* it; with both caches empty or unset the provider receives the caller's
\* specification unchanged.
C4_EmptyCacheLeavesField ==
  IsCreateStream =>
    /\ ~HasDevices(lastOp.audioSeen) =>
         lastOp.spec.microphoneId = lastOp.specIn.microphoneId
    /\ ~HasDevices(lastOp.videoSeen) =>
         lastOp.spec.cameraId = lastOp.specIn.cameraId
    /\ (~HasDevices(lastOp.audioSeen) /\ ~HasDevices(lastOp.videoSeen)) =>
         lastOp.providerCalls = 1 /\ lastOp.spec = lastOp.specIn

\* C4 witness: both caches set to the empty list (only "default" devices were
\* enumerated) and a specification with both fields unset.
C4_Witness ==
  /\ IsCreateStream
  /\ lastOp.audioSeen = Assigned(<<>>)
  /\ lastOp.videoSeen = Assigned(<<>>)
  /\ lastOp.specIn.microphoneId = Undefined
  /\ lastOp.specIn.cameraId = Undefined
  /\ lastOp.spec = lastOp.specIn

\* C5: right after the callback the audio (video) cache holds exactly the
\* delivered audioinput (videoinput) devices whose deviceId is not "default";
\* and in every state no cached device is a "default" alias or an audiooutput,
\* and no device is in both caches.
C5_CachesAreFilteredInputs ==
  /\ IsCallback =>
       /\ audioDevices.isSet /\ videoDevices.isSet
       /\ \A d \in Devices :
            /\ Count(audioDevices.list, d) =
                 IF d.kind = "audioinput" /\ d.deviceId # "default"
                   THEN Count(lastOp.devices, d) ELSE 0
            /\ Count(videoDevices.list, d) =
                 IF d.kind = "videoinput" /\ d.deviceId # "default"
                   THEN Count(lastOp.devices, d) ELSE 0
  /\ \A d \in Elements(audioDevices.list) \cup Elements(videoDevices.list) :
       d.deviceId # "default" /\ d.kind # "audiooutput"
  /\ Elements(audioDevices.list) \cap Elements(videoDevices.list) = {}

\* C5 witness: the enumeration [a audioinput, default audioinput, b videoinput]
\* gives the audio cache [a] and the video cache [b].
C5_Witness ==
  /\ IsCallback
  /\ Len(lastOp.devices) = 3
  /\ lastOp.devices[1].deviceId = "a" /\ lastOp.devices[1].kind = "audioinput"
  /\ lastOp.devices[2].deviceId = "default" /\ lastOp.devices[2].kind = "audioinput"
  /\ lastOp.devices[3].deviceId = "b" /\ lastOp.devices[3].kind = "videoinput"
  /\ audioDevices = Assigned(<<lastOp.devices[1]>>)
  /\ videoDevices = Assigned(<<lastOp.devices[3]>>)

\* C6: when the compatibility check failed at construction, getDevices is never
\* called and both caches stay unset, whatever is called afterwards.
C6_UnsupportedNeverEnumerates ==
  (svc # "new" /\ compat = "unsupported") =>
    /\ getDevicesCalls = 0
    /\ enum = "none"
    /\ audioDevices = Unset
    /\ videoDevices = Unset

\* C6 witness: after a failed check at construction, a later
\* checkSystemRequirements() call returned true.
C6_Witness ==
  /\ compat = "unsupported"
  /\ lastOp.op = "checkSystemRequirements"
  /\ lastOp.returned = TRUE
  /\ audioDevices = Unset

\* C7: a compatibility failure at construction is one Logger.error call and
\* nothing else: the constructor does not raise, and createStream and
\* createClient afterwards reach the provider with the caller's argument.
C7_UnsupportedOnlyLogged ==
  (svc # "new" /\ compat = "unsupported") =>
    /\ svc = "constructed"
    /\ loggerErrors = 1
    /\ IsCreateStream =>
         /\ ~lastOp.threw
         /\ lastOp.providerCalls = 1
         /\ lastOp.spec = lastOp.specIn
    /\ IsCreateClient =>
         /\ lastOp.providerCalls = 1
         /\ lastOp.providerConfig = lastOp.config

\* C7 witness: after the failed check a client was created and a stream was
\* requested.
C7_Witness ==
  /\ compat = "unsupported"
  /\ loggerErrors = 1
  /\ client > 0
  /\ IsCreateStream
  /\ lastOp.providerCalls = 1

\* C8: once the enumeration has failed both caches stay unset, createStream
\* applies no default and forwards the specification without an error of its
\* own, and no second enumeration is started.
C8_FailedEnumerationIsNoOp ==
  enum = "failed" =>
    /\ audioDevices = Unset
    /\ videoDevices = Unset
    /\ getDevicesCalls = 1
    /\ IsCreateStream =>
         /\ ~lastOp.threw
         /\ lastOp.providerCalls = 1
         /\ lastOp.spec = lastOp.specIn

\* C8 witness: a createStream call with both fields unset, made after the
\* enumeration failed.
C8_Witness ==
  /\ enum = "failed"
  /\ IsCreateStream
  /\ lastOp.enumSeen = "failed"
  /\ lastOp.specIn.microphoneId = Undefined
  /\ lastOp.specIn.cameraId = Undefined
  /\ lastOp.caller = "stream"

\* C9 (as stated): no createStream call reads the caches while the enumeration
\* started at construction has not delivered its callback.
C9_NoReadBeforeDelivery ==
  IsCreateStream => lastOp.enumSeen \notin {"pending", "failed"}

\* C9 (amended): a createStream call may read the caches before the callback is
\* delivered; such a call reads both caches unset and applies no default, and a
\* call made after the delivery reads both caches set.
C9_ReadSeesUnsetOrWritten ==
  IsCreateStream =>
    /\ lastOp.enumSeen # "delivered" =>
         /\ lastOp.audioSeen = Unset
         /\ lastOp.videoSeen = Unset
         /\ lastOp.spec = lastOp.specIn
    /\ lastOp.enumSeen = "delivered" =>
         lastOp.audioSeen.isSet /\ lastOp.videoSeen.isSet

\* C9 witness: a createStream call made while the callback was still pending.
C9_Witness ==
  /\ IsCreateStream
  /\ lastOp.enumSeen = "pending"
  /\ lastOp.specIn.microphoneId = Undefined
  /\ lastOp.audioSeen = Unset

\* C10, the counts: getDevices is called at most once, exactly once when the
\* check at construction succeeded; the caches are written at most once.
GetDevicesOnce ==
  /\ getDevicesCalls <= 1
  /\ svc = "constructed" => getDevicesCalls = (IF compat = "ok" THEN 1 ELSE 0)
  /\ cacheWrites <= 1
  /\ cacheWrites = 1 <=> enum = "delivered"

\* C10, the steps: only the constructor calls getDevices, and only the callback
\* of that call changes a cache.
OnlyCallbackWrites ==
  /\ getDevicesCalls' # getDevicesCalls => svc = "new"
  /\ <<audioDevices, videoDevices>>' # <<audioDevices, videoDevices>> =>
       enum = "pending" /\ enum' = "delivered" /\ lastOp'.op = "getDevicesCallback"
  /\ cacheWrites' # cacheWrites =>
       enum = "pending" /\ enum' = "delivered"

\* C10: getDevices is called at most once, only from the constructor (exactly
\* once when the compatibility check succeeded); the caches are written at most
\* once, only by the callback; no createStream, createClient or
\* checkSystemRequirements call writes, clears or reorders them.
C10_SingleEnumerationSingleWrite == [](GetDevicesOnce) /\ [][OnlyCallbackWrites]_vars

\* C10 witness: after the single write, a client was created and a default
\* microphone was applied by createStream, the cache still being as written.
C10_Witness ==
  /\ enum = "delivered"
  /\ cacheWrites = 1
  /\ getDevicesCalls = 1
  /\ client > 0
  /\ IsCreateStream
  /\ lastOp.specIn.microphoneId = Undefined
  /\ lastOp.spec.microphoneId = Str("a")
  /\ audioDevices = lastOp.audioSeen

IsRepeat == IsCreateStream /\ lastOp.prev # <<>>

\* C11: every createStream call invokes the provider's createStream exactly
\* once and the caller observes exactly what the provider did: the stream it
\* returned, or the failure it raised.
C11_ProviderResultUnchanged ==
  IsCreateStream =>
    /\ ~lastOp.threw
    /\ lastOp.providerCalls = 1
    /\ lastOp.provider \in {"stream", "error"}
    /\ lastOp.caller = lastOp.provider

\* C11 witness: the provider's createStream raised, after the wrapper had
\* applied a default, and the caller observed that failure.
C11_Witness ==
  /\ IsCreateStream
  /\ lastOp.provider = "error"
  /\ lastOp.caller = "error"
  /\ lastOp.spec # lastOp.specIn

C13_HandleIsProviderObject ==
  (IsCreateClient /\ lastOp.created # 0) =>
    /\ lastOp.providerConfig = lastOp.config
    /\ client = lastOp.created

\* C13 witness: a client created in "live" mode is the stored handle.
C13_Witness ==
  /\ IsCreateClient
  /\ lastOp.outcome = "ok"
  /\ lastOp.config.mode = "live"
  /\ lastOp.providerConfig.mode = "live"
  /\ client = lastOp.created
  /\ client > 0

\* C14: a failure of the provider's init call made by createClient reaches the
\* caller of createClient through a failure callback.
C14_InitFailureReachesCaller ==
  (IsCreateClient /\ lastOp.outcome = "initFails") => lastOp.failureCallbacks = 1

\* C15 (as stated): the provider's createClient is invoked at most once and a
\* stored handle is never replaced by another client object.
C15_CreatedOnceNeverReplaced ==
  /\ clientsCreated <= 1
  /\ (IsCreateClient /\ lastOp.clientBefore # 0) => client = lastOp.clientBefore

\* C15 (amended): every createClient call of the service invokes the provider's
\* createClient exactly once; when the provider returns, the stored handle is
\* replaced by the new client object, and it keeps its value only when the
\* provider's createClient raises.
C15_EachCallCreatesAndReplaces ==
  /\ client = clientsCreated
  /\ IsCreateClient =>
       /\ lastOp.providerCalls = 1
       /\ lastOp.created # 0 =>
            client = lastOp.created /\ client # lastOp.clientBefore
       /\ lastOp.created = 0 => client = lastOp.clientBefore

\* C15 witness: a second createClient call replaced the first client.
C15_Witness ==
  /\ IsCreateClient
  /\ lastOp.clientBefore = 1
  /\ lastOp.created = 2
  /\ client = 2

\* C16: createClient(config) returns to its caller the client object the
\* provider created for config.
C16_ReturnsCreatedClient ==
  (IsCreateClient /\ lastOp.caller = "undefined") =>
    lastOp.returned = <<lastOp.created>>

IsRedelivery == IsCallback /\ lastOp.before # <<>>

\* C17: when the callback is delivered again with the same device list, both
\* caches after the second delivery equal the caches after the first: same
\* elements, same order.
C17_RedeliveryIdempotent ==
  IsRedelivery =>
    /\ audioDevices = lastOp.before[1].audioDevices
    /\ videoDevices = lastOp.before[1].videoDevices

\* C17 witness: a list with two audio inputs and one video input delivered
\* twice.
C17_Witness ==
  /\ IsRedelivery
  /\ cacheWrites = 2
  /\ Len(audioDevices.list) = 2
  /\ Len(videoDevices.list) = 1
  /\ audioDevices = lastOp.before[1].audioDevices

\* C18: createStream changes nothing but, possibly, microphoneId and cameraId:
\* every other field of the specification reaches the provider with the
\* caller's value, and the device caches and the client handle are after the
\* call what they were before it.
C18_CreateStreamFrame ==
  IsCreateStream =>
    /\ lastOp.providerCalls = 1
    /\ lastOp.spec.audio = lastOp.specIn.audio
    /\ lastOp.spec.video = lastOp.specIn.video
    /\ lastOp.spec.screen = lastOp.specIn.screen
    /\ [lastOp.spec EXCEPT !.microphoneId = lastOp.specIn.microphoneId,
                           !.cameraId = lastOp.specIn.cameraId] = lastOp.specIn
    /\ audioDevices = lastOp.audioSeen
    /\ videoDevices = lastOp.videoSeen
    /\ client = lastOp.clientSeen

\* C18 witness: {audio: false, video: false, screen: true} with the caches [a]
\* and [b], a client being stored: the provider receives the flags unchanged
\* with microphoneId "a" and cameraId "b".
C18_Witness ==
  /\ IsCreateStream
  /\ lastOp.specIn = [audio |-> FALSE, video |-> FALSE, screen |-> TRUE,
                      microphoneId |-> Undefined, cameraId |-> Undefined]
  /\ lastOp.spec = [audio |-> FALSE, video |-> FALSE, screen |-> TRUE,
                    microphoneId |-> Str("a"), cameraId |-> Str("b")]
  /\ Len(audioDevices.list) = 1
  /\ Len(videoDevices.list) = 1
  /\ client > 0

\* Positions, in enumeration order, of the devices of a kind that are not the
\* "default" alias.
InputIndexes(list, kind) ==
  { i \in 1..Len(list) : list[i].kind = kind /\ list[i].deviceId # "default" }

Min(S) == CHOOSE x \in S : \A y \in S : x <= y

\* cache holds the devices at InputIndexes(list, kind), in their order.
InEnumerationOrder(cache, list, kind) ==
  LET idx == InputIndexes(list, kind) IN
  /\ Len(cache) = Cardinality(idx)
  /\ \A i \in idx : cache[Cardinality({ j \in idx : j <= i })] = list[i]

\* A specification that names no device.
NoDeviceSpec ==
  [audio |-> TRUE, video |-> TRUE, screen |-> FALSE,
   microphoneId |-> Undefined, cameraId |-> Undefined]

\* C20: each cache keeps the order of the enumeration, and the default
\* microphone (camera) createStream applies is the first enumerated device of
\* kind audioinput (videoinput) whose deviceId is not "default".
C20_DefaultIsFirstEnumerated ==
  IsCallback =>
    LET r == createStreamOp(NoDeviceSpec, audioDevices, videoDevices)
        mics == InputIndexes(lastOp.devices, "audioinput")
        cams == InputIndexes(lastOp.devices, "videoinput")
    IN  /\ InEnumerationOrder(audioDevices.list, lastOp.devices, "audioinput")
        /\ InEnumerationOrder(videoDevices.list, lastOp.devices, "videoinput")
        /\ r.spec.microphoneId =
             IF mics = {} THEN Undefined
                          ELSE Str(lastOp.devices[Min(mics)].deviceId)
        /\ r.spec.cameraId =
             IF cams = {} THEN Undefined
                          ELSE Str(lastOp.devices[Min(cams)].deviceId)

\* C20 witness: the enumeration [default, c, a] of audio inputs gives the cache
\* [c, a], whose first device is the default microphone.
C20_Witness ==
  /\ IsCallback
  /\ Len(lastOp.devices) = 3
  /\ lastOp.devices[1].deviceId = "default" /\ lastOp.devices[1].kind = "audioinput"
  /\ lastOp.devices[2].deviceId = "c" /\ lastOp.devices[2].kind = "audioinput"
  /\ lastOp.devices[3].deviceId = "a" /\ lastOp.devices[3].kind = "audioinput"
  /\ audioDevices.list = <<lastOp.devices[2], lastOp.devices[3]>>
  /\ createStreamOp(NoDeviceSpec, audioDevices, videoDevices).spec.microphoneId = Str("c")

\* C19: every createClient(config) call makes, in this order, one provider
\* createClient call with the caller's config, the assignment of the returned
\* object to this.client, and one init call on that object with the injected
\* AppID and no callback (nothing after the first step when the provider's
\* createClient raises); init is the only client operation the service invokes.
C19_CreateClientSteps ==
  IsCreateClient =>
    /\ lastOp.providerCalls = 1
    /\ lastOp.providerConfig = lastOp.config
    /\ lastOp.created # 0 =>
         /\ lastOp.steps = <<CallCreateClient, AssignClient, CallInit>>
         /\ client = lastOp.created
         /\ lastOp.initCalls = << <<lastOp.created, <<AppID>> >> >>
         /\ ~HasOnFailure(lastOp.initCalls[1])
    /\ lastOp.created = 0 =>
         /\ lastOp.steps = <<CallCreateClient>>
         /\ lastOp.initCalls = <<>>
    /\ \A i \in 1..Len(lastOp.steps) :
         lastOp.steps[i].on = "client" => lastOp.steps[i] = CallInit

\* C19 witness: a second createClient call initialised the new client, not the
\* one stored before.
C19_Witness ==
  /\ IsCreateClient
  /\ lastOp.outcome = "ok"
  /\ lastOp.clientBefore = 1
  /\ lastOp.initCalls = << <<2, <<AppID>> >> >>
  /\ lastOp.steps = <<CallCreateClient, AssignClient, CallInit>>

\* C21: in every state the audio cache and the video cache are both unset or
\* both set, and every createStream call read them so: the callback writes the
\* two in one step.
C21_CachesSetTogether ==
  /\ audioDevices.isSet <=> videoDevices.isSet
  /\ audioDevices.isSet <=> enum = "delivered"
  /\ IsCreateStream => (lastOp.audioSeen.isSet <=> lastOp.videoSeen.isSet)

\* C21 witness: a createStream call made after an enumeration with audio inputs
\* only: it read the audio cache [a] and the video cache set, and empty.
C21_Witness ==
  /\ IsCreateStream
  /\ lastOp.audioSeen.isSet
  /\ Len(lastOp.audioSeen.list) = 1
  /\ lastOp.videoSeen = Assigned(<<>>)
  /\ lastOp.spec.microphoneId = Str("a")

\* C22: a createStream call made while the enumeration callback is pending
\* raises no error of its own and forwards the specification with no default
\* applied; a call with both fields unset made after the callback delivered
\* non-empty lists forwards the first cached identifiers: the same
\* specification reaches the provider differently on the two sides of the
\* callback.
C22_DefaultsDependOnDelivery ==
  IsCreateStream =>
    /\ lastOp.enumSeen = "pending" =>
         /\ ~lastOp.threw
         /\ lastOp.providerCalls = 1
         /\ lastOp.caller = lastOp.provider
         /\ lastOp.spec = lastOp.specIn
    /\ ( /\ lastOp.enumSeen = "delivered"
         /\ lastOp.specIn.microphoneId = Undefined
         /\ lastOp.specIn.cameraId = Undefined
         /\ HasDevices(lastOp.audioSeen)
         /\ HasDevices(lastOp.videoSeen) ) =>
         /\ lastOp.providerCalls = 1
         /\ lastOp.spec.microphoneId = Str(lastOp.audioSeen.list[1].deviceId)
         /\ lastOp.spec.cameraId = Str(lastOp.videoSeen.list[1].deviceId)
         /\ lastOp.spec # lastOp.specIn

\* C22 witness: the service was constructed with the check passed, the callback
\* is still pending, and a specification with both fields unset was forwarded
\* as it was, the provider returning a stream.
C22_Witness ==
  /\ IsCreateStream
  /\ compat = "ok"
  /\ enum = "pending"
  /\ lastOp.enumSeen = "pending"
  /\ lastOp.specIn.microphoneId = Undefined
  /\ lastOp.specIn.cameraId = Undefined
  /\ lastOp.spec = lastOp.specIn
  /\ lastOp.caller = "stream"

\* The specification with every empty-string identifier left out.
WithoutEmptyIds(spec) ==
  [spec EXCEPT !.microphoneId = IF @ = Str("") THEN Undefined ELSE @,
               !.cameraId = IF @ = Str("") THEN Undefined ELSE @]

\* C23: a microphoneId (cameraId) that is the empty string is handled as an
\* unset one: with a non-empty audio (video) cache the provider receives the
\* first cached device's identifier in its place.
C23_EmptyStringIsUnset ==
  IsCreateStream =>
    /\ lastOp.providerCalls = 1
    /\ (lastOp.specIn.microphoneId = Str("") /\ HasDevices(lastOp.audioSeen)) =>
         lastOp.spec.microphoneId = Str(lastOp.audioSeen.list[1].deviceId)
    /\ (lastOp.specIn.cameraId = Str("") /\ HasDevices(lastOp.videoSeen)) =>
         lastOp.spec.cameraId = Str(lastOp.videoSeen.list[1].deviceId)
    /\ (HasDevices(lastOp.audioSeen) /\ HasDevices(lastOp.videoSeen)) =>
         lastOp.spec =
           createStreamOp(WithoutEmptyIds(lastOp.specIn),
                          lastOp.audioSeen, lastOp.videoSeen).spec

\* C23 witness: microphoneId "" and cameraId "" with the caches [c, ...] and
\* [d, ...]: the provider receives "c" and "d".
C23_Witness ==
  /\ IsCreateStream
  /\ lastOp.specIn.microphoneId = Str("")
  /\ lastOp.specIn.cameraId = Str("")
  /\ HasDevices(lastOp.audioSeen)
  /\ HasDevices(lastOp.videoSeen)
  /\ lastOp.spec.microphoneId = Str("c")
  /\ lastOp.spec.cameraId = Str("d")

\* C24: the defaults are written into the caller's object, which is the object
\* the provider receives: after the call the caller's specification carries
\* the substituted identifiers, a second call with the same object forwards
\* the identifiers of the first (also where the caches would give none), and
\* no field of the service holds the specification afterwards.
C24_DefaultsWrittenToCallerObject ==
  IsCreateStream =>
    /\ lastOp.callerSpec = lastOp.spec
    /\ (~Truthy(lastOp.specIn.microphoneId) /\ HasDevices(lastOp.audioSeen)) =>
         lastOp.callerSpec.microphoneId = Str(lastOp.audioSeen.list[1].deviceId)
    /\ (~Truthy(lastOp.specIn.cameraId) /\ HasDevices(lastOp.videoSeen)) =>
         lastOp.callerSpec.cameraId = Str(lastOp.videoSeen.list[1].deviceId)
    /\ createStreamOp(lastOp.callerSpec, Unset, Unset).spec = lastOp.spec
    /\ <<audioDevices, videoDevices, client>> =
         <<lastOp.audioSeen, lastOp.videoSeen, lastOp.clientSeen>>
    /\ IsRepeat =>
         /\ lastOp.specIn = lastOp.prev[1].spec
         /\ lastOp.spec = lastOp.prev[1].spec

\* C24 witness: an object with both fields unset was passed twice; the first
\* call wrote "a" and "b" into it and the second call forwarded them.
C24_Witness ==
  /\ IsRepeat
  /\ lastOp.prev[1].specIn.microphoneId = Undefined
  /\ lastOp.prev[1].specIn.cameraId = Undefined
  /\ lastOp.specIn.microphoneId = Str("a")
  /\ lastOp.specIn.cameraId = Str("b")
  /\ lastOp.spec = lastOp.specIn
  /\ lastOp.callerSpec = lastOp.spec

\* The specification with other capture flags.
WithCaptures(spec, flags) ==
  [spec EXCEPT !.audio = flags.audio, !.video = flags.video, !.screen = flags.screen]

\* C25: the defaults do not depend on the capture flags: with a non-empty
\* audio cache a specification without microphoneId receives the default
\* microphone also when audio is false, with a non-empty video cache one
\* without cameraId receives the default camera also when video is false or
\* screen is true, and the identifiers forwarded are those any other capture
\* flags would give.
C25_DefaultsIgnoreCaptureFlags ==
  IsCreateStream =>
    /\ (~Truthy(lastOp.specIn.microphoneId) /\ HasDevices(lastOp.audioSeen)) =>
         lastOp.spec.microphoneId = Str(lastOp.audioSeen.list[1].deviceId)
    /\ (~Truthy(lastOp.specIn.cameraId) /\ HasDevices(lastOp.videoSeen)) =>
         lastOp.spec.cameraId = Str(lastOp.videoSeen.list[1].deviceId)
    /\ \A flags \in Captures :
         LET r == createStreamOp(WithCaptures(lastOp.specIn, flags),
                                 lastOp.audioSeen, lastOp.videoSeen)
         IN  /\ r.spec.microphoneId = lastOp.spec.microphoneId
             /\ r.spec.cameraId = lastOp.spec.cameraId

\* C25 witness: a screen-sharing specification (audio false, video false,
\* screen true) received the default microphone and the default camera.
C25_Witness ==
  /\ IsCreateStream
  /\ ~lastOp.specIn.audio
  /\ ~lastOp.specIn.video
  /\ lastOp.specIn.screen
  /\ lastOp.specIn.microphoneId = Undefined
  /\ lastOp.specIn.cameraId = Undefined
  /\ lastOp.spec.microphoneId = Str("c")
  /\ lastOp.spec.cameraId = Str("b")

\* C26: the client handle is unset until a provider createClient call has
\* returned and is, in every state, the object returned by the most recent
\* such call (the provider's objects are numbered in the order of creation);
\* a createStream call leaves it as it found it, and a createClient call
\* changes it only to the object the provider returned to that call.
C26_HandleIsLatestCreated ==
  /\ client = clientsCreated
  /\ svc = "new" => client = 0
  /\ (~IsCreateClient /\ ~IsCreateStream /\ ~IsCallback
        /\ lastOp.op # "checkSystemRequirements") => client = 0
  /\ IsCreateStream => client = lastOp.clientSeen
  /\ IsCreateClient =>
       client = IF lastOp.created # 0 THEN lastOp.created ELSE lastOp.clientBefore

\* C26 witness: two clients were created, the enumeration was delivered and a
\* stream was requested: the handle is still the second client.
C26_Witness ==
  /\ IsCreateStream
  /\ enum = "delivered"
  /\ clientsCreated = 2
  /\ lastOp.clientSeen = 2
  /\ client = 2

\* C27: when the provider's createClient raises, the caller of createClient
\* observes the error, init is not called and the handle keeps its value; when
\* the provider's createClient returns and init raises, the caller observes
\* the error and the handle is already the new client.
C27_ErrorsPropagate ==
  IsCreateClient =>
    /\ lastOp.outcome = "createThrows" =>
         /\ lastOp.caller = "error"
         /\ lastOp.initCalls = <<>>
         /\ CallInit \notin Elements(lastOp.steps)
         /\ client = lastOp.clientBefore
    /\ lastOp.outcome = "initThrows" =>
         /\ lastOp.caller = "error"
         /\ lastOp.created # 0
         /\ client = lastOp.created
         /\ client # lastOp.clientBefore
         /\ lastOp.initCalls = << <<lastOp.created, <<AppID>> >> >>

\* C27 witness: with a client stored, the provider's createClient raised: the
\* caller saw the error and the stored client is the one from before.
C27_Witness ==
  /\ IsCreateClient
  /\ lastOp.outcome = "createThrows"
  /\ lastOp.clientBefore = 1
  /\ lastOp.caller = "error"
  /\ client = 1

====
